---- MODULE Spec2Model ----
(***************************************************************************)
(* The projects page (ProjectsPage) and its two-step create dialog         *)
(* (CreateProjectDialog), together with the remote api they call.          *)
(*                                                                         *)
(* A remote call is a request record.  It is "sent" when the client issues *)
(* it, becomes "ok" when the server has served it (the answer is then on   *)
(* its way), and is removed when the client runs the continuation after    *)
(* the await.  The server reads or changes its project list at the moment  *)
(* it serves the call, so an answer can be stale when the client handles   *)
(* it.  A call that fails was not served: the client's continuation takes  *)
(* it while it is still "sent", and it has no effect on the server.        *)
(* The toasts and console messages are not part of the state.              *)
(***************************************************************************)
EXTENDS Bags, FiniteSets, Integers, Sequences, TLC

VARIABLES
    mounted,        \* the page's mount effect has run           (part_000:20-27)
    projects,       \* useState<Project[]>([])                   (part_000:14)
    isCreateOpen,   \* useState(false)                           (part_000:15)
    isLoading,      \* useState(true)                            (part_000:16)
    step,           \* useState(1)                               (dialog:26)
    loading,        \* useState(false), the busy flag            (dialog:27)
    loadingMessage, \* useState('')                              (dialog:28)
    form,           \* useForm values                            (dialog:30-38)
    serverProjects, \* the project list held by the server
    nextId,         \* the next id the server assigns
    loadReqs,       \* api.getProjects calls in flight
    createReqs,     \* api.createProject calls in flight
    deleteReqs,     \* api.deleteProject calls in flight
    analyzeReqs     \* api.analyzeInitial calls in flight

vars == <<mounted, projects, isCreateOpen, isLoading, step, loading,
          loadingMessage, form, serverProjects, nextId, loadReqs,
          createReqs, deleteReqs, analyzeReqs>>

pageVars   == <<mounted, projects, isLoading>>
dialogVars == <<step, loading, loadingMessage, form>>
serverVars == <<serverProjects, nextId>>

----------------------------------------------------------------------------
(* Bounds *)

MaxCreated == 1   \* projects the server accepts to create
MaxPending == 1   \* getProjects and deleteProject calls in flight together
MaxNameLen == 4   \* characters of a subreddit name (SpecNormalize)
MaxListLen == 2   \* subreddits of a draft (SpecNormalize)

----------------------------------------------------------------------------
(* Values *)

\* A subreddit name is a sequence of characters, so that the prefix test of
\* the regular expression is computed on the characters.
rGolang == <<"r", "/", "g", "o", "l", "a", "n", "g">>
golang  == <<"g", "o", "l", "a", "n", "g">>
rust    == <<"r", "u", "s", "t">>
rrx     == <<"r", "/", "r", "/", "x">>

Names        == {"", "tracker"}
Descriptions == {"", "too short", "mentions of my product"}

\* What analyzeInitial may return.
AnalysisResults ==
    { [keywords |-> <<"go", "rust">>, subreddits |-> <<rGolang, rust>>],
      [keywords |-> <<"x">>,          subreddits |-> <<rrx>>] }

defaultValues ==
    [name |-> "", description |-> "", keywords |-> <<>>, subreddits |-> <<>>]


\* The fields of a Project that the page reads: the list is keyed, filtered
\* and compared by id.
MkProject(id, data) == [id |-> id, name |-> data.name]

Ids(list) == {list[i].id : i \in 1..Len(list)}

\* What the server may hold when the page is opened, and the first id it
\* assigns afterwards.
InitialServerLists == {<<>>, <<MkProject(1, [name |-> "seed"])>>}
FirstNewId == Cardinality(UNION {Ids(list) : list \in InitialServerLists}) + 1


----------------------------------------------------------------------------
(* Pure functions *)

\* s.replace(/^r\//, '')
StripPrefix(s) ==
    IF Len(s) >= 2 /\ s[1] = "r" /\ s[2] = "/" THEN SubSeq(s, 3, Len(s)) ELSE s

\* projectData.subreddits.map(s => s.replace(/^r\//, ''))
Normalize(xs) == [i \in 1..Len(xs) |-> StripPrefix(xs[i])]

HasPrefix(s) == Len(s) >= 2 /\ s[1] = "r" /\ s[2] = "/"

\* Variant of isFormValid without the length test.
isFormValid_noLength == form.name # "" /\ form.description # ""

\* name && description && description.length >= 10
isFormValid == form.name # "" /\ form.description # "" /\ Len(form.description) >= 10

\* the payload built by handleSubmit
formattedData ==
    [name |-> form.name, description |-> form.description,
     keywords |-> form.keywords, subreddits |-> Normalize(form.subreddits)]

\* Variant of Without with the test inverted (p.id === projectId).
RECURSIVE Without_inverted(_, _)
Without_inverted(list, id) ==
    IF list = <<>> THEN <<>>
    ELSE IF Head(list).id # id THEN Without_inverted(Tail(list), id)
         ELSE <<Head(list)>> \o Without_inverted(Tail(list), id)

\* prevProjects.filter(p => p.id !== projectId)
RECURSIVE Without(_, _)
Without(list, id) ==
    IF list = <<>> THEN <<>>
    ELSE IF Head(list).id = id THEN Without(Tail(list), id)
         ELSE <<Head(list)>> \o Without(Tail(list), id)

One(r) == SetToBag({r})

Pending == BagCardinality(loadReqs) + BagCardinality(deleteReqs)

Quiescent ==
    /\ loadReqs = EmptyBag /\ createReqs = EmptyBag
    /\ deleteReqs = EmptyBag /\ analyzeReqs = EmptyBag

----------------------------------------------------------------------------
(* Initial state *)

Init ==
    /\ mounted = FALSE
    /\ projects = <<>>
    /\ isCreateOpen = FALSE
    /\ isLoading = TRUE
    /\ step = 1
    /\ loading = FALSE
    /\ loadingMessage = ""
    /\ form = defaultValues
    /\ serverProjects \in InitialServerLists
    /\ nextId = FirstNewId
    /\ loadReqs = EmptyBag
    /\ createReqs = EmptyBag
    /\ deleteReqs = EmptyBag
    /\ analyzeReqs = EmptyBag

----------------------------------------------------------------------------
(* The projects page *)

\* A getProjects call; origin names the call of loadProjects that issued it:
\* "mount" (the effect) or "delete" (the catch block of handleDeleteProject).
SentLoad(origin) == [origin |-> origin, phase |-> "sent", snapshot |-> <<>>]

\* useEffect(() => { ... loadProjects(); }, [user, router]) with a signed-in
\* user: loadProjects runs up to its await.
Mount ==
    /\ ~mounted
    /\ mounted' = TRUE
    /\ loadReqs' = loadReqs (+) One(SentLoad("mount"))
    /\ UNCHANGED <<projects, isCreateOpen, isLoading, dialogVars, serverVars, createReqs, deleteReqs, analyzeReqs>>

\* The server answers a getProjects call with its list at that moment.
ServerGetProjects ==
    \E r \in BagToSet(loadReqs) :
        /\ r.phase = "sent"
        /\ loadReqs' = (loadReqs (-) One(r))
                         (+) One([r EXCEPT !.phase = "ok",
                                            !.snapshot = serverProjects])
        /\ UNCHANGED <<pageVars, isCreateOpen, dialogVars, serverVars,
                       createReqs, deleteReqs, analyzeReqs>>

\* Variant of AfterLoad that empties the list when the call failed.
AfterLoad_clearsOnFailure(list, r) ==
    IF r.phase = "ok" THEN r.snapshot ELSE <<>>

\* loadProjects after the await: setProjects(fetchedProjects) on success,
\* nothing in the catch block.
AfterLoad(list, r) ==
    IF r.phase = "ok" THEN r.snapshot ELSE list

\* loadProjects after the await: setProjects(fetchedProjects) or the catch
\* block, then finally setIsLoading(false).
LoadResponse ==
    \E r \in BagToSet(loadReqs) :
        /\ loadReqs' = loadReqs (-) One(r)
        /\ projects' = AfterLoad(projects, r)
        /\ isLoading' = FALSE
        /\ UNCHANGED <<mounted, isCreateOpen, dialogVars, serverVars,
                       createReqs, deleteReqs, analyzeReqs>>

\* handleDeleteProject up to its await, invoked from a rendered ProjectCard:
\* the optimistic filter, then api.deleteProject(projectId).
HandleDeleteProject ==
    \E id \in Ids(projects) :
        /\ ~isLoading
        /\ Pending < MaxPending
        /\ projects' = Without(projects, id)
        /\ deleteReqs' = deleteReqs (+) One([phase |-> "sent", id |-> id])
        /\ UNCHANGED <<mounted, isLoading, isCreateOpen, dialogVars, serverVars, loadReqs, createReqs, analyzeReqs>>

\* The server deletes the project.
ServerDelete ==
    \E r \in BagToSet(deleteReqs) :
        /\ r.phase = "sent"
        /\ deleteReqs' = (deleteReqs (-) One(r)) (+) One([r EXCEPT !.phase = "ok"])
        /\ serverProjects' = Without(serverProjects, r.id)
        /\ UNCHANGED <<pageVars, isCreateOpen, dialogVars, nextId,
                       loadReqs, createReqs, analyzeReqs>>

\* handleDeleteProject after the await: the success or the catch block
\* that calls loadProjects() without awaiting it.
DeleteResponse ==
    \E r \in BagToSet(deleteReqs) :
        /\ deleteReqs' = deleteReqs (-) One(r)
        /\ loadReqs' = IF r.phase = "ok" THEN loadReqs
                                         ELSE loadReqs (+) One(SentLoad("delete"))
        /\ UNCHANGED <<pageVars, isCreateOpen, dialogVars, serverVars,
                       createReqs, analyzeReqs>>

\* The New Project / Create Project button: setIsCreateOpen(true).
OpenDialog ==
    /\ ~isLoading
    /\ ~isCreateOpen
    /\ isCreateOpen' = TRUE
    /\ UNCHANGED <<pageVars, dialogVars, serverVars, loadReqs,
                   createReqs, deleteReqs, analyzeReqs>>

----------------------------------------------------------------------------
(* The create dialog *)

\* Variant of ResetEffect without setStep(1).
ResetEffect_formOnly ==
    /\ form' = defaultValues
    /\ step' = step

\* The reset effect's body: reset() restores defaultValues, setStep(1).
ResetEffect ==
    /\ form' = defaultValues
    /\ step' = 1

\* onOpenChange(false) from the Dialog (close button, Escape, overlay); the
\* effect on [open, reset] then runs with open = false.  The busy flag is
\* not part of the effect.
CloseDialog ==
    /\ ~isLoading
    /\ isCreateOpen
    /\ isCreateOpen' = FALSE
    /\ ResetEffect
    /\ UNCHANGED <<pageVars, loading, loadingMessage, serverVars,
                   loadReqs, createReqs, deleteReqs, analyzeReqs>>

\* The inputs of step 1 are rendered when step = 1 and disabled while loading.
InputsEnabled == ~isLoading /\ isCreateOpen /\ step = 1 /\ ~loading

SetName ==
    \E n \in Names :
        /\ InputsEnabled
        /\ n # form.name
        /\ form' = [form EXCEPT !.name = n]
        /\ UNCHANGED <<pageVars, isCreateOpen, step, loading, loadingMessage,
                       serverVars, loadReqs, createReqs, deleteReqs,
                       analyzeReqs>>

SetDescription ==
    \E d \in Descriptions :
        /\ InputsEnabled
        /\ d # form.description
        /\ form' = [form EXCEPT !.description = d]
        /\ UNCHANGED <<pageVars, isCreateOpen, step, loading, loadingMessage,
                       serverVars, loadReqs, createReqs, deleteReqs,
                       analyzeReqs>>

\* handleAnalyze up to its await.  The Analyze button is disabled while
\* loading; the handler itself tests isFormValid, and an invocation with an
\* invalid form returns after the validation toast.
HandleAnalyze ==
    /\ ~isLoading
    /\ isCreateOpen
    /\ step = 1
    /\ ~loading
    /\ IF ~isFormValid
          THEN UNCHANGED <<loading, loadingMessage, analyzeReqs>>
          ELSE /\ loading' = TRUE
               /\ loadingMessage' = "Analyzing your project..."
               /\ analyzeReqs' = analyzeReqs (+)
                     One([phase |-> "sent", name |-> form.name,
                          description |-> form.description, data |-> <<>>])
    /\ UNCHANGED <<pageVars, isCreateOpen, step, form, serverVars, loadReqs,
                   createReqs, deleteReqs>>

\* The analyzer returns keywords and subreddits.
ServerAnalyze ==
    \E r \in BagToSet(analyzeReqs), a \in AnalysisResults :
        /\ r.phase = "sent"
        /\ analyzeReqs' = (analyzeReqs (-) One(r))
                            (+) One([r EXCEPT !.phase = "ok", !.data = <<a>>])
        /\ UNCHANGED <<pageVars, isCreateOpen, dialogVars, serverVars,
                       loadReqs, createReqs, deleteReqs>>

\* Variant of MergeAnalysis without the second setValue.
MergeAnalysis_keywordsOnly(f, data) ==
    [f EXCEPT !.keywords = data.keywords]

\* form.setValue('keywords', data.keywords);
\* form.setValue('subreddits', data.subreddits)
MergeAnalysis(f, data) ==
    [f EXCEPT !.keywords = data.keywords, !.subreddits = data.subreddits]

\* Variant of BusyAfterAnalyze that clears the busy flag at the end of the
\* try block instead of in finally.
BusyAfterAnalyze_successOnly(r) == r.phase # "ok"

\* The busy flag after the finally block of handleAnalyze: setLoading(false).
BusyAfterAnalyze(r) == FALSE

\* handleAnalyze after the await: merge and setStep(2), or the catch block;
\* then finally setLoading(false), setLoadingMessage('').
AnalyzeResponse ==
    \E r \in BagToSet(analyzeReqs) :
        /\ analyzeReqs' = analyzeReqs (-) One(r)
        /\ IF r.phase = "ok"
              THEN /\ form' = MergeAnalysis(form, r.data[1])
                   /\ step' = 2
              ELSE UNCHANGED <<form, step>>
        /\ loading' = BusyAfterAnalyze(r)
        /\ loadingMessage' = ""
        /\ UNCHANGED <<pageVars, isCreateOpen, serverVars, loadReqs,
                       createReqs, deleteReqs>>

\* Variant of Back that also discards the analysis.
Back_discardsAnalysis ==
    /\ ~isLoading
    /\ isCreateOpen
    /\ step = 2
    /\ ~loading
    /\ step' = 1
    /\ form' = [form EXCEPT !.keywords = <<>>, !.subreddits = <<>>]
    /\ UNCHANGED <<pageVars, isCreateOpen, loading, loadingMessage,
                   serverVars, loadReqs, createReqs, deleteReqs,
                   analyzeReqs>>

\* The Back button of step 2: setStep(1), disabled while loading.
Back ==
    /\ ~isLoading
    /\ isCreateOpen
    /\ step = 2
    /\ ~loading
    /\ step' = 1
    /\ UNCHANGED <<pageVars, isCreateOpen, loading, loadingMessage, form,
                   serverVars, loadReqs, createReqs, deleteReqs,
                   analyzeReqs>>

\* Variant of SubmitEnabled without disabled={loading}.
SubmitEnabled_ignoresBusy == ~isLoading /\ isCreateOpen /\ step = 2

\* The Create Project button is rendered in step 2 and disabled while loading.
SubmitEnabled == ~isLoading /\ isCreateOpen /\ step = 2 /\ ~loading

\* handleSubmit up to the await inside handleCreateProject:
\* api.createProject(formattedData).
HandleSubmit ==
    /\ SubmitEnabled
    /\ loading' = TRUE
    /\ loadingMessage' = "Creating your project..."
    /\ createReqs' = createReqs (+)
          One([phase |-> "sent", payload |-> formattedData, resp |-> <<>>])
    /\ UNCHANGED <<pageVars, isCreateOpen, step, form, serverVars,
                   loadReqs, deleteReqs, analyzeReqs>>

\* The server stores the project under a new id and returns it.
ServerCreate ==
    \E r \in BagToSet(createReqs) :
        /\ r.phase = "sent"
        /\ nextId < FirstNewId + MaxCreated
        /\ LET p == MkProject(nextId, r.payload) IN
              /\ serverProjects' = Append(serverProjects, p)
              /\ createReqs' = (createReqs (-) One(r))
                    (+) One([r EXCEPT !.phase = "ok", !.resp = <<p>>])
        /\ nextId' = nextId + 1
        /\ UNCHANGED <<pageVars, isCreateOpen, dialogVars, loadReqs,
                       deleteReqs, analyzeReqs>>

\* Variant of AfterCreate with an optimistic insert: the list also gets the
\* submitted data when the call failed.
AfterCreate_optimistic(list, r) ==
    IF r.phase = "ok" THEN list \o r.resp
                      ELSE Append(list, MkProject(0, r.payload))

\* handleCreateProject after the await:
\* setProjects(prevProjects => [...prevProjects, newProject]) on success,
\* nothing on failure (the error is re-thrown).
AfterCreate(list, r) ==
    IF r.phase = "ok" THEN list \o r.resp ELSE list

\* Variant of OpenAfterCreate that leaves the dialog open on success.
OpenAfterCreate_staysOpen(open, r) == open

\* Variant of OpenAfterCreate that closes the dialog on failure too.
OpenAfterCreate_alwaysCloses(open, r) == FALSE

\* handleSubmit after onProjectCreated settles: onOpenChange(false) on
\* success, nothing in the catch block.
OpenAfterCreate(open, r) ==
    IF r.phase = "ok" THEN FALSE ELSE open

\* Variant of BusyAfterSubmit that clears the busy flag at the end of the
\* try block instead of in finally.
BusyAfterSubmit_successOnly(r) == r.phase # "ok"

\* The busy flag after the finally block of handleSubmit: setLoading(false).
BusyAfterSubmit(r) == FALSE

\* The continuations of handleCreateProject and handleSubmit, which run back
\* to back; when open goes from true to false the reset effect runs.
CreateResponse ==
    \E r \in BagToSet(createReqs) :
        /\ createReqs' = createReqs (-) One(r)
        /\ projects' = AfterCreate(projects, r)
        /\ isCreateOpen' = OpenAfterCreate(isCreateOpen, r)
        /\ IF isCreateOpen /\ ~isCreateOpen'
              THEN ResetEffect
              ELSE UNCHANGED <<form, step>>
        /\ loading' = BusyAfterSubmit(r)
        /\ loadingMessage' = ""
        /\ UNCHANGED <<mounted, isLoading, serverVars, loadReqs, deleteReqs,
                       analyzeReqs>>

----------------------------------------------------------------------------
(* Specification *)

Next ==
    \/ Mount
    \/ ServerGetProjects
    \/ LoadResponse
    \/ HandleDeleteProject
    \/ ServerDelete
    \/ DeleteResponse
    \/ OpenDialog
    \/ CloseDialog
    \/ SetName
    \/ SetDescription
    \/ HandleAnalyze
    \/ ServerAnalyze
    \/ AnalyzeResponse
    \/ Back
    \/ HandleSubmit
    \/ ServerCreate
    \/ CreateResponse

Spec == Init /\ [][Next]_vars

\* Every call is eventually settled: the continuation after an await of the
\* dialog runs once the call has succeeded or failed.
SpecLive ==
    /\ Init /\ [][Next]_vars
    /\ WF_vars(AnalyzeResponse)
    /\ WF_vars(CreateResponse)

----------------------------------------------------------------------------
(* The normalization of handleSubmit on arbitrary drafts: the dialog is in   *)
(* step 2 with a subreddit list the analyzer may have returned, and the      *)
(* draft is submitted.                                                       *)

Alphabet == {"r", "/", "x"}

SeqsUpTo(S, n) == UNION {[1..k -> S] : k \in 0..n}

SubredditNames == SeqsUpTo(Alphabet, MaxNameLen)
SubredditLists == SeqsUpTo(SubredditNames, MaxListLen)

InitNormalize ==
    /\ mounted = TRUE
    /\ projects = <<>>
    /\ isCreateOpen = TRUE
    /\ isLoading = FALSE
    /\ step = 2
    /\ loading = FALSE
    /\ loadingMessage = ""
    /\ \E xs \in SubredditLists :
          form = [name |-> "tracker", description |-> "mentions of my product",
                  keywords |-> <<"x">>, subreddits |-> xs]
    /\ serverProjects = <<>>
    /\ nextId = FirstNewId
    /\ loadReqs = EmptyBag
    /\ createReqs = EmptyBag
    /\ deleteReqs = EmptyBag
    /\ analyzeReqs = EmptyBag

NextNormalize ==
    \/ HandleSubmit
    \/ ServerCreate
    \/ CreateResponse

SpecNormalize == InitNormalize /\ [][NextNormalize]_vars

----------------------------------------------------------------------------
(* Properties *)

\* The continuation of a call removes its request record.
Settles(reqs, r) == reqs' = reqs (-) One(r)

HoldsAnalysis(kw, subs) ==
    \E a \in AnalysisResults : kw = a.keywords /\ subs = a.subreddits

\* C1: when the reload issued after a failed delete completes (successfully
\* or not) and leaves no request in flight, the held list has exactly the
\* ids of the server's list.
DeleteFailureReconciled ==
    [][\A r \in BagToSet(loadReqs) :
          (r.origin = "delete" /\ Settles(loadReqs, r) /\ Quiescent')
             => Ids(projects') = Ids(serverProjects')]_vars

\* C2: whenever the dialog is opened, it is in step 1 with name, description,
\* keywords and subreddits empty.
ReopenedDialogIsEmptyDraft ==
    [][(~isCreateOpen /\ isCreateOpen')
          => (step' = 1 /\ form' = defaultValues)]_vars

\* C3: every createProject request in flight carries the keywords and the
\* (normalized) subreddits of an analysis result, and step 2, the only step
\* that offers the submit, is only held with an analysis result merged into
\* the form.
SubmitOnlyAfterAnalysis ==
    /\ \A r \in BagToSet(createReqs) :
          \E a \in AnalysisResults :
             /\ r.payload.keywords = a.keywords
             /\ r.payload.subreddits = Normalize(a.subreddits)
    /\ step = 2 => HoldsAnalysis(form.keywords, form.subreddits)

SubmittedAnalysis ==
    \E r \in BagToSet(createReqs) :
        /\ r.phase = "sent"
        /\ r.payload.name = "tracker"
        /\ r.payload.keywords = <<"go", "rust">>

\* C4: where handleAnalyze can be invoked (dialog open in step 1, not busy)
\* with an empty name or a description shorter than 10 characters, no step
\* issues an analyzeInitial request, raises the busy flag or changes the
\* step, and the keywords and subreddits change only by closing the dialog.
InvalidDraftIsNotAnalyzed ==
    [][(/\ ~isLoading /\ isCreateOpen /\ step = 1 /\ ~loading
        /\ (form.name = "" \/ Len(form.description) < 10))
          => /\ analyzeReqs' = analyzeReqs
             /\ loading' = loading
             /\ loadingMessage' = loadingMessage
             /\ step' = step
             /\ isCreateOpen' => /\ form'.keywords = form.keywords
                                 /\ form'.subreddits = form.subreddits]_vars

ShortDescriptionDraft ==
    /\ ~isLoading /\ isCreateOpen /\ step = 1 /\ ~loading
    /\ form.name = "tracker"
    /\ form.description = "too short"
    /\ analyzeReqs = EmptyBag

\* C5: handling a successful analyzeInitial response moves the flow from
\* step 1 to step 2 and sets the form's keywords and subreddits to the
\* sequences of that response, leaving name and description as they are.
AnalysisMergedIntoReview ==
    [][\A r \in BagToSet(analyzeReqs) :
          (r.phase = "ok" /\ Settles(analyzeReqs, r))
             => /\ step = 1
                /\ step' = 2
                /\ form'.keywords = r.data[1].keywords
                /\ form'.subreddits = r.data[1].subreddits
                /\ form'.name = form.name
                /\ form'.description = form.description]_vars

ReviewOfAnalysis ==
    /\ isCreateOpen
    /\ step = 2
    /\ analyzeReqs = EmptyBag
    /\ form.name = "tracker"
    /\ form.subreddits = <<rGolang, rust>>

\* C6 as stated: after a failed createProject the dialog is open in step 2
\* with the name, description, keywords and subreddits that were submitted,
\* and the held list is unchanged.
CreateFailureStaysInReview ==
    [][\A r \in BagToSet(createReqs) :
          (r.phase = "sent" /\ Settles(createReqs, r))
             => /\ isCreateOpen'
                /\ step' = 2
                /\ form'.name = r.payload.name
                /\ form'.description = r.payload.description
                /\ form'.keywords = r.payload.keywords
                /\ Normalize(form'.subreddits) = r.payload.subreddits
                /\ projects' = projects]_vars

\* C6 as amended: handling a failed createProject changes neither whether
\* the dialog is open, nor the step, nor the form, nor the held list; a
\* dialog that is then open in step 2 holds the values that were submitted.
CreateFailureChangesNothing ==
    [][\A r \in BagToSet(createReqs) :
          (r.phase = "sent" /\ Settles(createReqs, r))
             => /\ isCreateOpen' = isCreateOpen
                /\ step' = step
                /\ form' = form
                /\ projects' = projects
                /\ (isCreateOpen /\ step = 2)
                      => /\ form.name = r.payload.name
                         /\ form.description = r.payload.description
                         /\ form.keywords = r.payload.keywords
                         /\ Normalize(form.subreddits) = r.payload.subreddits]_vars

CreatePendingInReview ==
    \E r \in BagToSet(createReqs) :
        /\ r.phase = "sent"
        /\ isCreateOpen
        /\ step = 2
        /\ projects # <<>>

\* C7: no subreddit of a createProject payload begins with "r/".
PayloadHasNoPrefix ==
    \A r \in BagToSet(createReqs) :
        \A i \in 1..Len(r.payload.subreddits) :
            ~HasPrefix(r.payload.subreddits[i])

\* C8: the normalization maps ["r/golang", "rust"] to ["golang", "rust"],
\* keeps the length of every list, and normalizing a submitted (already
\* normalized) list returns it unchanged.
NormalizeIsIdempotent ==
    /\ Normalize(<<rGolang, rust>>) = <<golang, rust>>
    /\ \A r \in BagToSet(createReqs) :
          /\ Len(r.payload.subreddits) = Len(form.subreddits)
          /\ Normalize(r.payload.subreddits) = r.payload.subreddits

\* C9 as stated: the held list never holds a project whose createProject
\* request is still in flight.
ListHoldsOnlyAcknowledged ==
    \A r \in BagToSet(createReqs) :
        r.phase = "ok" => r.resp[1].id \notin Ids(projects)

\* C9 as amended: the create path changes the held list only when it handles
\* a successful createProject response, by appending the returned project;
\* issuing the request, the server's creation and a failure leave the list
\* as it is, and a failure leaves the dialog open; an id enters the list
\* only with such a response or with a getProjects response that lists it.
CreateAppendsOnlyOnAck ==
    [][/\ \A r \in BagToSet(createReqs) :
             Settles(createReqs, r)
                => IF r.phase = "ok"
                      THEN projects' = Append(projects, r.resp[1])
                      ELSE projects' = projects /\ isCreateOpen' = isCreateOpen
       /\ (/\ createReqs' # createReqs
           /\ \A r \in BagToSet(createReqs) : ~Settles(createReqs, r))
             => projects' = projects
       /\ \A id \in Ids(projects') \ Ids(projects) :
             \/ \E r \in BagToSet(createReqs) :
                   r.phase = "ok" /\ Settles(createReqs, r) /\ r.resp[1].id = id
             \/ \E r \in BagToSet(loadReqs) :
                   r.phase = "ok" /\ Settles(loadReqs, r) /\ id \in Ids(r.snapshot)]_vars

CreatedProjectListed ==
    /\ Quiescent
    /\ FirstNewId \in Ids(projects)
    /\ FirstNewId \in Ids(serverProjects)

\* C10: handling a successful createProject response leaves the dialog
\* closed, in step 1, with an empty form and the busy flag cleared.
SubmitSuccessResets ==
    [][\A r \in BagToSet(createReqs) :
          (r.phase = "ok" /\ Settles(createReqs, r))
             => /\ ~isCreateOpen'
                /\ step' = 1
                /\ form' = defaultValues
                /\ ~loading'
                /\ loadingMessage' = ""]_vars

ClosedAfterCreate ==
    /\ createReqs = EmptyBag
    /\ FirstNewId \in Ids(serverProjects)
    /\ ~isCreateOpen
    /\ ~loading
    /\ form = defaultValues

\* C11: handling a failed getProjects call leaves the held list as it was
\* just before, and clears the page's loading indicator.
LoadFailureKeepsList ==
    [][\A r \in BagToSet(loadReqs) :
          (r.phase = "sent" /\ Settles(loadReqs, r))
             => projects' = projects /\ ~isLoading']_vars

ReloadPendingWithList ==
    \E r \in BagToSet(loadReqs) :
        r.phase = "sent" /\ r.origin = "delete" /\ projects # <<>>

\* C12: at most one analyzeInitial or createProject request of the dialog is
\* in flight at any time, and the busy flag, which disables the Analyze,
\* Back and Create controls, is set whenever one is; a close and reopen of
\* the dialog does not clear it.
DialogRequests == BagCardinality(analyzeReqs) + BagCardinality(createReqs)

OneDialogRequest ==
    /\ DialogRequests <= 1
    /\ DialogRequests = 1 => loading

BusyAcrossReopen ==
    /\ isCreateOpen
    /\ loading
    /\ step = 1
    /\ form = defaultValues
    /\ \E r \in BagToSet(analyzeReqs) : r.name = "tracker"

\* C13: handling a failed analyzeInitial call leaves the flow in step 1 with
\* name, description, keywords and subreddits as they were, and clears the
\* busy flag.
AnalysisFailureStaysInDraft ==
    [][\A r \in BagToSet(analyzeReqs) :
          (r.phase = "sent" /\ Settles(analyzeReqs, r))
             => /\ step = 1
                /\ step' = 1
                /\ form' = form
                /\ ~loading'
                /\ loadingMessage' = ""]_vars

AnalysisPendingInDraft ==
    \E r \in BagToSet(analyzeReqs) :
        /\ r.phase = "sent"
        /\ isCreateOpen
        /\ step = 1
        /\ loading
        /\ form.name = r.name
        /\ form.description = r.description

BackChangesOnlyStep ==
    [][(isCreateOpen /\ isCreateOpen' /\ step = 2 /\ step' = 1)
          => /\ form' = form
             /\ loading' = loading
             /\ projects' = projects
             /\ analyzeReqs' = analyzeReqs
             /\ createReqs' = createReqs]_vars

DraftKeepsAnalysis ==
    /\ isCreateOpen
    /\ step = 1
    /\ ~loading
    /\ form.name = "tracker"
    /\ form.keywords = <<"go", "rust">>
    /\ form.subreddits = <<rGolang, rust>>

PayloadIsValidDraft ==
    \A r \in BagToSet(createReqs) :
        r.payload.name # "" /\ Len(r.payload.description) >= 10

\* C18: the held list never holds two entries with the same project id.
NoDuplicateIds == Cardinality(Ids(projects)) = Len(projects)

\* C19: a project that is in the held list and on the server leaves the held
\* list only in the step that issues a deleteProject call for its id, and a
\* project that the server has deleted and the list does not hold does not
\* come back into the list.
StaleLoadUndoesNothing ==
    [][\A id \in 1..(nextId - 1) :
          /\ (/\ id \in Ids(projects) /\ id \in Ids(serverProjects)
              /\ id \notin Ids(projects'))
                => deleteReqs' = deleteReqs (+) One([phase |-> "sent", id |-> id])
          /\ (/\ id \notin Ids(projects) /\ id \notin Ids(serverProjects)
              /\ \A r \in BagToSet(createReqs) :
                    r.phase = "ok" => r.resp[1].id # id)
                => id \notin Ids(projects')]_vars

====
